---- MODULE Spec2Model ----
(***************************************************************************)
(* AnalyticsManager (src/unnamed/part_000): the session recorder and the   *)
(* report dispatcher of the Black Hole Square analytics plugin.            *)
(*                                                                         *)
(* Strings the code inspects (level ids) are sequences of one-character    *)
(* strings.  The three containers the recorder replaces wholesale on       *)
(* initialize/reset (perLevelAnalytics, rawData, diagnostics.levels) live  *)
(* in a heap and are held by reference, so that sharing between the        *)
(* recorder and a value it handed out is part of the state.  Objects       *)
(* nested in a container (level entries, task lists, stats objects) are    *)
(* only ever reachable through that one container and are kept by value.   *)
(***************************************************************************)
EXTENDS Integers, Sequences, FiniteSets, Bags, TLC

\* ------------------------------------------------------------------ bounds

\* Most recorder calls that change something (startLevel, endLevel, recordTask,
\* addRawMetric) between two initialize/reset calls.
MaxCalls == 5
\* Most submitReport calls per run of the dispatcher.
MaxSubmits == 2

\* ------------------------------------------------------------- level ids

level_0_titlescreen ==
    <<"l","e","v","e","l","_","0","_","t","i","t","l","e","s","c","r","e","e","n">>
level_2_click == <<"l","e","v","e","l","_","2","_","c","l","i","c","k">>
level_3_push == <<"l","e","v","e","l","_","3","_","p","u","s","h">>
level_5_conflict ==
    <<"l","e","v","e","l","_","5","_","c","o","n","f","l","i","c","t">>
level_10_turmoil ==
    <<"l","e","v","e","l","_","1","0","_","t","u","r","m","o","i","l">>
level_10_conflict ==
    <<"l","e","v","e","l","_","1","0","_","c","o","n","f","l","i","c","t">>
titlescreen == <<"t","i","t","l","e","s","c","r","e","e","n">>
\* The empty string: the value of lastPlayedLevel/highestLevelPlayed before
\* any close.
EmptyString == <<>>

\* ------------------------------------------------- _extractLevelNumber

Digits == {"0","1","2","3","4","5","6","7","8","9"}

DigitValue(c) ==
    CASE c = "0" -> 0 [] c = "1" -> 1 [] c = "2" -> 2 [] c = "3" -> 3
      [] c = "4" -> 4 [] c = "5" -> 5 [] c = "6" -> 6 [] c = "7" -> 7
      [] c = "8" -> 8 [] c = "9" -> 9

\* parseInt(s, 10) of a non-empty run of decimal digits.
RECURSIVE ParseInt(_)
ParseInt(s) ==
    IF s = <<>> THEN 0
    ELSE 10 * ParseInt(SubSeq(s, 1, Len(s) - 1)) + DigitValue(s[Len(s)])

\* levelId.match(/(\d+)/): the leftmost maximal run of digits, <<>> when the
\* string holds no digit.
FirstDigitRun(levelId) ==
    LET starts == {i \in 1..Len(levelId) : levelId[i] \in Digits} IN
    IF starts = {} THEN <<>>
    ELSE LET first == CHOOSE i \in starts : \A j \in starts : i <= j
             ends == {j \in first..Len(levelId) :
                        /\ \A k \in first..j : levelId[k] \in Digits
                        /\ (j = Len(levelId) \/ levelId[j + 1] \notin Digits)}
             last == CHOOSE j \in ends : TRUE
         IN  SubSeq(levelId, first, last)

ExtractLevelNumber(levelId) ==
    IF levelId = EmptyString THEN 0
    ELSE LET match == FirstDigitRun(levelId) IN
         IF match # <<>> THEN ParseInt(match) ELSE 0

\* ----------------------------------------------------------------- state

VARIABLES
    isInitialized,  \* this._isInitialized
    gameId,         \* this._gameId
    sessionName,    \* this._sessionName
    sessionId,      \* this._sessionId
    reportData,     \* this._reportData; its three containers are heap references
    heap,           \* reference -> container (table, rawData list, levels list)
    snap,           \* <<>> or <<v>>: the value getReportData last returned, held by its caller
    delivered,      \* <<>> or <<p>>: the payload object last passed to trackGameSession
    env,            \* the host environment: which bridges exist and which throw
    storage,        \* the localStorage slot ignite_pending_sessions_jsplugin
    parentOrigin,   \* window.__GodotAnalyticsParentOrigin
    handshake,      \* history: the parentOrigin of the last ANALYTICS_CONFIG message the window received
    listeners,      \* handlers registered with window.addEventListener, per event
    timers,         \* pending setTimeout(flushPending, 2000) callbacks
    clock,          \* Date.now()
    submits,        \* submitReport calls made so far (caps the run)
    inflight,       \* <<>> or <<f>>: a flushPending that has read the slot and not yet removed it
    queued,         \* history: for each payload in the slot, its number among the payloads ever queued
    flushed,        \* history: per payload ever queued, the number of flushes that sent it
    closes,         \* history: the bag of endLevel calls that found an entry since initialize/reset
    closed,         \* history: per attempt-log entry, whether an endLevel has hit it
    lastCall        \* history: the operation that produced this state

recVars == <<isInitialized, gameId, sessionName, sessionId, reportData>>
holdVars == <<snap, delivered>>
queueVars == <<inflight, queued, flushed>>
dispVars == <<env, storage, parentOrigin, handshake, listeners, timers, clock, submits,
              queueVars>>
histVars == <<closes, closed>>
vars == <<recVars, heap, holdVars, dispVars, histVars, lastCall>>

\* ------------------------------------------------------------- the heap

\* The smallest reference not in use.
SmallestFree(used) ==
    CHOOSE r \in 0..Cardinality(used) :
        r \notin used /\ \A q \in 0..(r - 1) : q \in used

\* Three fresh references.  Which of the three new containers gets which
\* reference is not observable; they are always handed out in the order
\* perLevelAnalytics, rawData, levels.
FreshRefs(used) ==
    LET r1 == SmallestFree(used)
        r2 == SmallestFree(used \cup {r1})
        r3 == SmallestFree(used \cup {r1, r2})
    IN  <<r1, r2, r3>>

\* The container references an object (reportData, a payload) holds.
RefsOf(obj) == {obj.perLevelAnalytics, obj.rawData, obj.levels}

RefsOfAll(objs) == UNION {RefsOf(objs[i]) : i \in DOMAIN objs}

\* The heap restricted to what is still reachable (unreachable containers are
\* garbage: nothing can observe them).
Collect(h, roots) == [r \in roots |-> h[r]]

\* The containers of the recorder, dereferenced.
PerLevelAnalytics == heap[reportData.perLevelAnalytics]
RawData == heap[reportData.rawData]
Levels == heap[reportData.levels]

\* An object with its containers dereferenced: what JSON.stringify sees.
Deref(h, obj) ==
    [obj EXCEPT !.perLevelAnalytics = h[obj.perLevelAnalytics],
                !.rawData = h[obj.rawData],
                !.levels = h[obj.levels]]

\* ------------------------------------------------------- recorder helpers

\* Number.POSITIVE_INFINITY, the initial bestTimeMs of a stats object; every
\* time the model draws is a non-negative integer, so -1 is free to stand for it.
Infinity == -1

\* a < b on JavaScript numbers, b possibly Infinity.
LessThan(a, b) ==
    IF a = Infinity THEN FALSE
    ELSE IF b = Infinity THEN TRUE
    ELSE a < b

\* MathRound done wrongly: an exact half rounds down.
MathRoundHalfDown(n, d) == (2 * n + d - 1) \div (2 * d)

\* Math.round(n / d) for n >= 0, d > 0: the nearest integer, a half rounds up.
MathRound(n, d) == (2 * n + d) \div (2 * d)

\* String(value) of a raw metric value: a number is printed in decimal, a
\* string is kept.
RECURSIVE ToDecimal(_)
ToDecimal(n) ==
    LET digit == CHOOSE c \in Digits : DigitValue(c) = n % 10 IN
    IF n < 10 THEN <<digit>> ELSE Append(ToDecimal(n \div 10), digit)

StringOf(value) ==
    IF value.type = "number" THEN ToDecimal(value.num) ELSE value.str

\* GetLevelById done wrongly: the search runs from the front of the log and
\* yields the oldest entry with this levelId.
GetLevelByIdOldest(levels, levelId) ==
    LET hits == {i \in 1..Len(levels) : levels[i].levelId = levelId} IN
    IF hits = {} THEN 0
    ELSE CHOOSE i \in hits : \A j \in hits : i <= j

\* _getLevelById: the index of the last entry with this levelId, 0 for null.
GetLevelById(levels, levelId) ==
    LET hits == {i \in 1..Len(levels) : levels[i].levelId = levelId} IN
    IF hits = {} THEN 0
    ELSE CHOOSE i \in hits : \A j \in hits : j <= i

NewStats ==
    [attempts |-> 0, wins |-> 0, losses |-> 0, totalTimeMs |-> 0,
     bestTimeMs |-> Infinity, totalXp |-> 0, averageTimeMs |-> 0]

\* RecordOutcome done wrongly: the else branch forgets stats.losses += 1.
RecordOutcomeNoLoss(stats, successful, timeTakenMs, xp) ==
    IF successful
    THEN [stats EXCEPT
            !.wins = @ + 1,
            !.totalXp = @ + xp,
            !.bestTimeMs = IF LessThan(timeTakenMs, @) THEN timeTakenMs ELSE @]
    ELSE stats

\* _updatePerLevelAnalytics, the branch on `successful`: a win counts a win,
\* adds its xp and may lower bestTimeMs; anything else counts a loss.
RecordOutcome(stats, successful, timeTakenMs, xp) ==
    IF successful
    THEN [stats EXCEPT
            !.wins = @ + 1,
            !.totalXp = @ + xp,
            !.bestTimeMs = IF LessThan(timeTakenMs, @) THEN timeTakenMs ELSE @]
    ELSE [stats EXCEPT !.losses = @ + 1]

\* _updatePerLevelAnalytics, its last statement: a bestTimeMs still Infinity
\* is stored as 0.
NormalizeBestTime(stats) ==
    IF stats.bestTimeMs = Infinity THEN [stats EXCEPT !.bestTimeMs = 0] ELSE stats

\* _updatePerLevelAnalytics: the table after one close of levelId.
UpdatePerLevelAnalytics(table, levelId, successful, timeTakenMs, xp) ==
    LET stats0 == IF levelId \in DOMAIN table THEN table[levelId] ELSE NewStats
        stats1 == [stats0 EXCEPT !.attempts = @ + 1]
        stats2 == RecordOutcome(stats1, successful, timeTakenMs, xp)
        stats3 == [stats2 EXCEPT !.totalTimeMs = @ + timeTakenMs]
        stats4 == [stats3 EXCEPT
                     !.averageTimeMs = MathRound(stats3.totalTimeMs, stats3.attempts)]
        stats5 == NormalizeBestTime(stats4)
    IN  [l \in DOMAIN table \cup {levelId} |->
            IF l = levelId THEN stats5 ELSE table[l]]

\* UpdateHighestLevel done wrongly: the marker follows every close, as
\* lastPlayedLevel does.
UpdateHighestLevelAlways(highestLevelPlayed, levelId) == levelId

\* UpdateHighestLevel done wrongly: a level with the same index as the marker
\* takes the marker.
UpdateHighestLevelOnTies(highestLevelPlayed, levelId) ==
    IF ExtractLevelNumber(levelId) >= ExtractLevelNumber(highestLevelPlayed)
    THEN levelId ELSE highestLevelPlayed

\* _updateHighestLevel: the new highestLevelPlayed.
UpdateHighestLevel(highestLevelPlayed, levelId) ==
    LET currentLevelNum == ExtractLevelNumber(levelId)
        highestLevelNum == ExtractLevelNumber(highestLevelPlayed)
    IN  IF currentLevelNum > highestLevelNum THEN levelId ELSE highestLevelPlayed

\* The entry startLevel pushes.
NewLevelEntry(levelId) ==
    [levelId |-> levelId, successful |-> FALSE, timeTaken |-> 0,
     timeDirection |-> FALSE, xpEarned |-> 0, tasks |-> <<>>]

\* NewTask done wrongly: every recorded task counts as successful.
NewTaskAlwaysSuccessful(taskId, question, correctChoice, choiceMade, timeMs, xp) ==
    [taskId |-> taskId, question |-> question, options |-> "[]",
     correctChoice |-> correctChoice, choiceMade |-> choiceMade,
     successful |-> TRUE,
     timeTaken |-> timeMs, xpEarned |-> xp]

\* The task object recordTask pushes.
NewTask(taskId, question, correctChoice, choiceMade, timeMs, xp) ==
    [taskId |-> taskId, question |-> question, options |-> "[]",
     correctChoice |-> correctChoice, choiceMade |-> choiceMade,
     successful |-> (correctChoice = choiceMade),
     timeTaken |-> timeMs, xpEarned |-> xp]

\* The last operation, and whether it took its mutating branch (was not turned
\* away by the initialization check or the level lookup).  args: the
\* arguments where a later check needs them; calls: the bridge calls it made,
\* in order; returned: <<>> for undefined, <<v>> for a returned value v.
Call(op, found) ==
    [op |-> op, found |-> found, args |-> <<>>, calls |-> <<>>, returned |-> <<>>]

\* ------------------------------------------------------ the environment

\* What submitReport can find around it.  window: whether `window` is defined.
\* tracker: window.myJsAnalytics.trackGameSession; webview:
\* window.ReactNativeWebView.postMessage; parent: window.parent.postMessage;
\* each bridge is absent, works, or throws when called (the parent frame is
\* never absent as a property; a call on a missing one throws).
\* localStorage: usable, or every access throws.
Environments ==
    [window : BOOLEAN,
     tracker : {"absent", "ok", "throws"},
     webview : {"absent", "ok", "throws"},
     parent : {"ok", "throws"},
     localStorage : {"ok", "throws"}]

\* A top-level browser page with no bridge installed.
PlainBrowser ==
    [window |-> TRUE, tracker |-> "absent", webview |-> "absent",
     parent |-> "ok", localStorage |-> "ok"]

\* The slot LS_KEY of localStorage: absent (getItem gives null), a JSON array
\* of payloads, or text that JSON.parse rejects or that is no array.
EmptySlot == [kind |-> "absent", list |-> <<>>]
ListSlot(list) == [kind |-> "list", list |-> list]
CorruptSlot == [kind |-> "corrupt", list |-> <<>>]

\* ------------------------------------------------------ recorder actions

\* constructor(): the singleton before initialize, in host environment e.
InitIn(e) ==
    /\ isInitialized = FALSE
    /\ gameId = ""
    /\ sessionName = ""
    /\ sessionId = <<>>
    /\ reportData =
         [gameId |-> "", sessionId |-> <<>>, timestamp |-> <<>>, name |-> "",
          xpEarnedTotal |-> 0, xpEarned |-> 0, xpTotal |-> 0, bestXp |-> 0,
          lastPlayedLevel |-> EmptyString, highestLevelPlayed |-> EmptyString,
          perLevelAnalytics |-> 0, rawData |-> 1, levels |-> 2]
    /\ heap = [r \in {0, 1, 2} |-> <<>>]
    /\ snap = <<>>
    /\ delivered = <<>>
    /\ env = e
    /\ storage = EmptySlot
    /\ parentOrigin = ""
    /\ handshake = ""
    /\ listeners = [online |-> 0, load |-> 0, message |-> 0]
    /\ timers = 0
    /\ clock = 0
    /\ submits = 0
    /\ inflight = <<>>
    /\ queued = <<>>
    /\ flushed = <<>>
    /\ closes = EmptyBag
    /\ closed = <<>>
    /\ lastCall = Call("constructor", FALSE)

Init == InitIn(PlainBrowser)

\* Initialize done wrongly: the four reward totals are carried over.
InitializeKeepsTotals(g, name, random) ==
    LET fresh == FreshRefs(RefsOfAll(snap) \cup RefsOfAll(delivered))
        rd == [reportData EXCEPT
                 !.gameId = g, !.name = name,
                 !.sessionId = <<"session", clock, random>>,
                 !.perLevelAnalytics = fresh[1], !.rawData = fresh[2],
                 !.levels = fresh[3],
                 !.lastPlayedLevel = EmptyString,
                 !.highestLevelPlayed = EmptyString]
    IN  /\ gameId' = g
        /\ sessionName' = name
        /\ sessionId' = rd.sessionId
        /\ reportData' = rd
        /\ heap' = [r \in RefsOf(rd) \cup RefsOfAll(snap) \cup RefsOfAll(delivered) |->
                      IF r \in RefsOf(rd) THEN <<>> ELSE heap[r]]
        /\ isInitialized' = TRUE
        /\ closes' = EmptyBag
        /\ closed' = <<>>
        /\ lastCall' = [Call("initialize", FALSE) EXCEPT !.args = <<g, name>>]
        /\ UNCHANGED <<holdVars, dispVars>>

\* initialize(gameId, sessionName); random is what Math.random() contributes
\* to the session id.
Initialize(g, name, random) ==
    LET fresh == FreshRefs(RefsOfAll(snap) \cup RefsOfAll(delivered))
        sid == <<"session", clock, random>>
        rd == [reportData EXCEPT
                 !.gameId = g, !.name = name, !.sessionId = sid,
                 !.perLevelAnalytics = fresh[1], !.rawData = fresh[2],
                 !.levels = fresh[3],
                 !.xpEarnedTotal = 0, !.xpEarned = 0, !.xpTotal = 0, !.bestXp = 0,
                 !.lastPlayedLevel = EmptyString,
                 !.highestLevelPlayed = EmptyString]
    IN  /\ gameId' = g
        /\ sessionName' = name
        /\ sessionId' = sid
        /\ reportData' = rd
        /\ heap' = [r \in RefsOf(rd) \cup RefsOfAll(snap) \cup RefsOfAll(delivered) |->
                      IF r \in RefsOf(rd) THEN <<>> ELSE heap[r]]
        /\ isInitialized' = TRUE
        /\ closes' = EmptyBag
        /\ closed' = <<>>
        /\ lastCall' = [Call("initialize", FALSE) EXCEPT !.args = <<g, name>>]
        /\ UNCHANGED <<holdVars, dispVars>>

\* AddRawMetric done wrongly: the initialization check is left out.
AddRawMetricUnchecked(key, value) ==
    /\ heap' = [heap EXCEPT
                  ![reportData.rawData] =
                      Append(@, [key |-> key, value |-> StringOf(value)])]
    /\ lastCall' = Call("addRawMetric", TRUE)
    /\ UNCHANGED <<recVars, holdVars, dispVars, histVars>>

\* addRawMetric(key, value)
AddRawMetric(key, value) ==
    /\ IF ~isInitialized
       THEN UNCHANGED heap
       ELSE heap' = [heap EXCEPT
                       ![reportData.rawData] =
                           Append(@, [key |-> key, value |-> StringOf(value)])]
    /\ lastCall' = Call("addRawMetric", isInitialized)
    /\ UNCHANGED <<recVars, holdVars, dispVars, histVars>>

\* startLevel(levelId)
StartLevel(levelId) ==
    /\ IF ~isInitialized
       THEN UNCHANGED <<heap, closed>>
       ELSE /\ heap' = [heap EXCEPT
                          ![reportData.levels] = Append(@, NewLevelEntry(levelId))]
            /\ closed' = Append(closed, FALSE)
    /\ lastCall' = Call("startLevel", isInitialized)
    /\ UNCHANGED <<recVars, holdVars, dispVars, closes>>

\* EndLevel done wrongly: the progression markers are written before the lookup
\* result is tested.
EndLevelMarkersFirst(levelId, successful, timeTakenMs, xp) ==
    LET level == GetLevelById(Levels, levelId)
        marked == [reportData EXCEPT
                     !.lastPlayedLevel = levelId,
                     !.highestLevelPlayed = UpdateHighestLevel(@, levelId)]
    IN
    /\ IF level # 0
       THEN LET total == reportData.xpEarnedTotal + xp IN
            /\ reportData' =
                 [marked EXCEPT
                    !.xpEarnedTotal = total,
                    !.xpEarned = total,
                    !.xpTotal = total,
                    !.bestXp = total]
            /\ heap' =
                 [heap EXCEPT
                    ![reportData.levels] =
                        [@ EXCEPT ![level] =
                            [@ EXCEPT !.successful = successful,
                                      !.timeTaken = timeTakenMs,
                                      !.xpEarned = xp]],
                    ![reportData.perLevelAnalytics] =
                        UpdatePerLevelAnalytics(@, levelId, successful,
                                                timeTakenMs, xp)]
            /\ closes' = closes (+) SetToBag({[levelId |-> levelId,
                                                 successful |-> successful,
                                                 timeTakenMs |-> timeTakenMs,
                                                 xp |-> xp]})
            /\ closed' = [closed EXCEPT ![level] = TRUE]
       ELSE /\ reportData' = marked
            /\ UNCHANGED <<heap, closes, closed>>
    /\ lastCall' = Call("endLevel", level # 0)
    /\ UNCHANGED <<isInitialized, gameId, sessionName, sessionId, holdVars, dispVars>>

\* endLevel(levelId, successful, timeTakenMs, xp)
EndLevel(levelId, successful, timeTakenMs, xp) ==
    LET level == GetLevelById(Levels, levelId) IN
    /\ IF level # 0
       THEN LET total == reportData.xpEarnedTotal + xp IN
            /\ reportData' =
                 [reportData EXCEPT
                    !.xpEarnedTotal = total,
                    !.xpEarned = total,
                    !.xpTotal = total,
                    !.bestXp = total,
                    !.lastPlayedLevel = levelId,
                    !.highestLevelPlayed = UpdateHighestLevel(@, levelId)]
            /\ heap' =
                 [heap EXCEPT
                    ![reportData.levels] =
                        [@ EXCEPT ![level] =
                            [@ EXCEPT !.successful = successful,
                                      !.timeTaken = timeTakenMs,
                                      !.xpEarned = xp]],
                    ![reportData.perLevelAnalytics] =
                        UpdatePerLevelAnalytics(@, levelId, successful,
                                                timeTakenMs, xp)]
            /\ closes' = closes (+) SetToBag({[levelId |-> levelId,
                                                 successful |-> successful,
                                                 timeTakenMs |-> timeTakenMs,
                                                 xp |-> xp]})
            /\ closed' = [closed EXCEPT ![level] = TRUE]
       ELSE UNCHANGED <<reportData, heap, closes, closed>>
    /\ lastCall' = Call("endLevel", level # 0)
    /\ UNCHANGED <<isInitialized, gameId, sessionName, sessionId, holdVars, dispVars>>

\* recordTask(levelId, taskId, question, correctChoice, choiceMade, timeMs, xp)
RecordTask(levelId, taskId, question, correctChoice, choiceMade, timeMs, xp) ==
    LET level == GetLevelById(Levels, levelId) IN
    /\ IF level # 0
       THEN heap' =
              [heap EXCEPT
                 ![reportData.levels] =
                     [@ EXCEPT ![level] =
                         [@ EXCEPT !.tasks =
                             Append(@, NewTask(taskId, question, correctChoice,
                                               choiceMade, timeMs, xp))]]]
       ELSE UNCHANGED heap
    /\ lastCall' = Call("recordTask", level # 0)
    /\ UNCHANGED <<recVars, holdVars, dispVars, histVars>>

\* Reset done wrongly: the session id is blanked with the rest.
ResetDropsSessionId ==
    LET fresh == FreshRefs(RefsOfAll(snap) \cup RefsOfAll(delivered))
        rd == [reportData EXCEPT
                 !.sessionId = <<>>,
                 !.xpEarnedTotal = 0, !.xpEarned = 0, !.xpTotal = 0, !.bestXp = 0,
                 !.perLevelAnalytics = fresh[1], !.rawData = fresh[2],
                 !.levels = fresh[3],
                 !.lastPlayedLevel = EmptyString,
                 !.highestLevelPlayed = EmptyString]
    IN  /\ reportData' = rd
        /\ heap' = [r \in RefsOf(rd) \cup RefsOfAll(snap) \cup RefsOfAll(delivered) |->
                      IF r \in RefsOf(rd) THEN <<>> ELSE heap[r]]
        /\ closes' = EmptyBag
        /\ closed' = <<>>
        /\ lastCall' = Call("reset", FALSE)
        /\ UNCHANGED <<isInitialized, gameId, sessionName, sessionId,
                       holdVars, dispVars>>

\* Reset done wrongly: bestXp keeps the best total seen.
ResetKeepsBestXp ==
    LET fresh == FreshRefs(RefsOfAll(snap) \cup RefsOfAll(delivered))
        rd == [reportData EXCEPT
                 !.xpEarnedTotal = 0, !.xpEarned = 0, !.xpTotal = 0,
                 !.perLevelAnalytics = fresh[1], !.rawData = fresh[2],
                 !.levels = fresh[3],
                 !.lastPlayedLevel = EmptyString,
                 !.highestLevelPlayed = EmptyString]
    IN  /\ reportData' = rd
        /\ heap' = [r \in RefsOf(rd) \cup RefsOfAll(snap) \cup RefsOfAll(delivered) |->
                      IF r \in RefsOf(rd) THEN <<>> ELSE heap[r]]
        /\ closes' = EmptyBag
        /\ closed' = <<>>
        /\ lastCall' = Call("reset", FALSE)
        /\ UNCHANGED <<isInitialized, gameId, sessionName, sessionId,
                       holdVars, dispVars>>

\* reset()
Reset ==
    LET fresh == FreshRefs(RefsOfAll(snap) \cup RefsOfAll(delivered))
        rd == [reportData EXCEPT
                 !.xpEarnedTotal = 0, !.xpEarned = 0, !.xpTotal = 0, !.bestXp = 0,
                 !.perLevelAnalytics = fresh[1], !.rawData = fresh[2],
                 !.levels = fresh[3],
                 !.lastPlayedLevel = EmptyString,
                 !.highestLevelPlayed = EmptyString]
    IN  /\ reportData' = rd
        /\ heap' = [r \in RefsOf(rd) \cup RefsOfAll(snap) \cup RefsOfAll(delivered) |->
                      IF r \in RefsOf(rd) THEN <<>> ELSE heap[r]]
        /\ closes' = EmptyBag
        /\ closed' = <<>>
        /\ lastCall' = Call("reset", FALSE)
        /\ UNCHANGED <<isInitialized, gameId, sessionName, sessionId,
                       holdVars, dispVars>>

\* ----------------------------------------------------- snapshot, payload

\* What JSON.stringify writes for a number: null for Infinity.
Null == -2
JsonNumber(n) == IF n = Infinity THEN Null ELSE n

\* JSON.parse(JSON.stringify(container)): a new value, equal field by field
\* except where JSON cannot carry a number.
JsonCloneTable(table) ==
    [l \in DOMAIN table |->
        [table[l] EXCEPT !.bestTimeMs = JsonNumber(@)]]
JsonCloneList(list) == [i \in 1..Len(list) |-> list[i]]

\* JSON.stringify of a whole payload: its containers written out by value.
JsonOf(h, payload) ==
    [payload EXCEPT !.perLevelAnalytics = JsonCloneTable(h[payload.perLevelAnalytics]),
                    !.rawData = JsonCloneList(h[payload.rawData]),
                    !.levels = JsonCloneList(h[payload.levels])]

\* new Date().toISOString()
Timestamp == <<clock>>

\* The object literal both getReportData and submitReport build; they differ in
\* the three container references they put in it.
PayloadObject(perLevelRef, rawDataRef, levelsRef) ==
    [gameId |-> reportData.gameId,
     sessionId |-> reportData.sessionId,
     timestamp |-> Timestamp,
     name |-> reportData.name,
     xpEarnedTotal |-> reportData.xpEarnedTotal,
     xpEarned |-> reportData.xpEarned,
     xpTotal |-> reportData.xpTotal,
     bestXp |-> reportData.bestXp,
     lastPlayedLevel |-> reportData.lastPlayedLevel,
     highestLevelPlayed |-> reportData.highestLevelPlayed,
     perLevelAnalytics |-> perLevelRef,
     rawData |-> rawDataRef,
     levels |-> levelsRef]

\* ReportDataCopy done wrongly: the containers are put in as they are, without
\* the JSON round trip.
ReportDataShared(fresh) ==
    PayloadObject(reportData.perLevelAnalytics, reportData.rawData,
                  reportData.levels)

\* getReportData(): the three containers are JSON round-trip copies.
ReportDataCopy(fresh) == PayloadObject(fresh[1], fresh[2], fresh[3])

\* submitReport's payload: the three containers are the recorder's own.
SubmitPayload ==
    PayloadObject(reportData.perLevelAnalytics, reportData.rawData,
                  reportData.levels)

\* getReportData(); the caller keeps the returned value (dropping an older one).
GetReportData ==
    LET fresh == FreshRefs(RefsOf(reportData) \cup RefsOfAll(delivered))
        value == ReportDataCopy(fresh)
        copies == [r \in RefsOf(value) |->
                     IF r = value.perLevelAnalytics
                     THEN JsonCloneTable(PerLevelAnalytics)
                     ELSE IF r = value.rawData THEN JsonCloneList(RawData)
                     ELSE JsonCloneList(Levels)]
    IN  /\ snap' = <<value>>
        /\ heap' = [r \in RefsOf(reportData) \cup RefsOfAll(delivered)
                           \cup RefsOf(value) |->
                      IF r \in RefsOf(value) /\ r \notin RefsOf(reportData)
                      THEN copies[r] ELSE heap[r]]
        /\ lastCall' = Call("getReportData", FALSE)
        /\ UNCHANGED <<recVars, delivered, dispVars, histVars>>

\* ------------------------------------------------------------ dispatcher

\* One bridge inside trySend: skipped when it is not installed, otherwise
\* called inside its own try/catch.
BridgeAttempt(channel, bridge) ==
    IF bridge = "absent" THEN <<>>
    ELSE <<[channel |-> channel, outcome |-> bridge]>>

\* Attempts done wrongly: the first bridge that throws ends the send.
AttemptsStopAtThrow(e) ==
    LET all == BridgeAttempt("tracker", e.tracker)
                 \o BridgeAttempt("webview", e.webview)
                 \o BridgeAttempt("parent", e.parent)
        throwing == {i \in 1..Len(all) : all[i].outcome = "throws"}
    IN  IF throwing = {} THEN all
        ELSE SubSeq(all, 1, CHOOSE i \in throwing : \A j \in throwing : i <= j)

\* trySend(p): the bridge calls made, in order, and how each ended; the
\* console is written to when none of them took the payload.
Attempts(e) ==
    LET bridges == BridgeAttempt("tracker", e.tracker)
                     \o BridgeAttempt("webview", e.webview)
                     \o BridgeAttempt("parent", e.parent)
    IN  IF \E i \in 1..Len(bridges) : bridges[i].outcome = "ok"
        THEN bridges
        ELSE Append(bridges, [channel |-> "console", outcome |-> "ok"])

\* trySend(p): which bridges took the payload.  tracked: trackGameSession
\* returned normally, so the host holds the object p itself.
TrySend(e) ==
    LET made == Attempts(e)
        took(channel) == \E i \in 1..Len(made) :
                            made[i].channel = channel /\ made[i].outcome = "ok"
    IN  [sent |-> took("tracker") \/ took("webview") \/ took("parent"),
         tracked |-> took("tracker")]

\* window.__GodotAnalyticsParentOrigin || '*'
Target == IF parentOrigin = "" THEN "*" ELSE parentOrigin

\* The calls of one trySend(p), each with the payload it was given; target:
\* the second argument of window.parent.postMessage.
ChannelCalls(e, json) ==
    LET made == Attempts(e) IN
    [i \in 1..Len(made) |->
        [channel |-> made[i].channel, outcome |-> made[i].outcome,
         payload |-> json,
         target |-> IF made[i].channel = "parent" THEN Target ELSE ""]]

\* savePending(p): the slot afterwards; json is JSON.stringify's view of p.
SavePending(slot, e, json) ==
    IF e.localStorage = "throws" \/ slot.kind = "corrupt" THEN slot
    ELSE ListSlot(Append(slot.list, json))

\* flushPending(): whether it gets as far as sending, and the slot afterwards.
FlushSends(slot, e) ==
    e.localStorage = "ok" /\ slot.kind = "list" /\ Len(slot.list) > 0
\* FlushPending done wrongly: the slot is removed only when the payloads were
\* taken.
FlushPendingKeepsUnsent(slot, e) ==
    IF FlushSends(slot, e) /\ TrySend(e).sent THEN EmptySlot ELSE slot

\* FlushPending done wrongly: the remaining (empty) list is written back with
\* setItem where the code returns early or calls removeItem.
FlushPendingWritesBack(slot, e) ==
    IF e.localStorage = "ok" /\ slot.kind # "corrupt" THEN ListSlot(<<>>) ELSE slot

FlushPending(slot, e) ==
    IF FlushSends(slot, e) THEN EmptySlot ELSE slot

\* list.forEach(function (p) { trySend(p); }): the calls made, oldest payload
\* first.
RECURSIVE ForEachTrySend(_, _)
ForEachTrySend(list, e) ==
    IF list = <<>> THEN <<>>
    ELSE ChannelCalls(e, Head(list)) \o ForEachTrySend(Tail(list), e)

\* flushPending(): the bridge calls it makes.
FlushCalls(slot, e) ==
    IF FlushSends(slot, e) THEN ForEachTrySend(slot.list, e) ELSE <<>>

\* History: one more flush has sent the payloads numbered in ids.
CountFlush(counts, ids) ==
    [id \in DOMAIN counts |->
        IF \E i \in 1..Len(ids) : ids[i] = id THEN counts[id] + 1 ELSE counts[id]]

\* What a flushPending run leaves in the slot and in the history of the queue.
FlushEffect ==
    /\ storage' = FlushPending(storage, env)
    /\ IF FlushSends(storage, env)
       THEN /\ queued' = <<>>
            /\ flushed' = CountFlush(flushed, queued)
       ELSE UNCHANGED <<queued, flushed>>

\* RegisterRetry done wrongly: the listeners are added, no timer is set.
RegisterRetryWithoutTimer ==
    /\ listeners' = [online |-> listeners.online + 1,
                     load |-> listeners.load + 1,
                     message |-> listeners.message + 1]
    /\ UNCHANGED timers

\* The end of submitReport: flushPending is added as a listener of online
\* and of load, the handshake listener of message is added, and
\* setTimeout(flushPending, 2000) is called.
RegisterRetry ==
    /\ listeners' = [online |-> listeners.online + 1,
                     load |-> listeners.load + 1,
                     message |-> listeners.message + 1]
    /\ timers' = timers + 1

\* SubmitReport done wrongly: every call writes the time into the timestamp
\* field of _reportData, which the constructor leaves empty.
SubmitReportStampsTimestamp ==
    /\ submits < MaxSubmits
    /\ submits' = submits + 1
    /\ IF ~isInitialized
       THEN /\ lastCall' = Call("submitReport", FALSE)
            /\ UNCHANGED <<delivered, storage, listeners, timers, queued, flushed>>
       ELSE IF ~env.window
       THEN /\ lastCall' = [Call("submitReport", TRUE) EXCEPT
                              !.returned = <<JsonOf(heap, SubmitPayload)>>]
            /\ UNCHANGED <<delivered, storage, listeners, timers, queued, flushed>>
       ELSE LET payload == SubmitPayload
                json == JsonOf(heap, payload)
                ok == TrySend(env)
            IN  /\ delivered' = IF ok.tracked THEN <<payload>> ELSE delivered
                /\ storage' = IF ~ok.sent
                              THEN SavePending(storage, env, json)
                              ELSE storage
                /\ IF storage' # storage
                   THEN /\ queued' = Append(queued, Len(flushed) + 1)
                        /\ flushed' = Append(flushed, 0)
                   ELSE UNCHANGED <<queued, flushed>>
                /\ RegisterRetry
                /\ lastCall' = [Call("submitReport", TRUE) EXCEPT
                                  !.calls = ChannelCalls(env, json)]
    /\ heap' = Collect(heap, RefsOf(reportData) \cup RefsOfAll(snap)
                              \cup RefsOfAll(delivered'))
    /\ reportData' = [reportData EXCEPT !.timestamp = Timestamp]
    /\ UNCHANGED <<isInitialized, gameId, sessionName, sessionId, snap, env,
                   parentOrigin, handshake, clock, inflight, histVars>>

\* submitReport()
SubmitReport ==
    /\ submits < MaxSubmits
    /\ submits' = submits + 1
    /\ IF ~isInitialized
       THEN /\ lastCall' = Call("submitReport", FALSE)
            /\ UNCHANGED <<delivered, storage, listeners, timers, queued, flushed>>
       ELSE IF ~env.window
       THEN /\ lastCall' = [Call("submitReport", TRUE) EXCEPT
                              !.returned = <<JsonOf(heap, SubmitPayload)>>]
            /\ UNCHANGED <<delivered, storage, listeners, timers, queued, flushed>>
       ELSE LET payload == SubmitPayload
                json == JsonOf(heap, payload)
                ok == TrySend(env)
            IN  /\ delivered' = IF ok.tracked THEN <<payload>> ELSE delivered
                /\ storage' = IF ~ok.sent
                              THEN SavePending(storage, env, json)
                              ELSE storage
                /\ IF storage' # storage
                   THEN /\ queued' = Append(queued, Len(flushed) + 1)
                        /\ flushed' = Append(flushed, 0)
                   ELSE UNCHANGED <<queued, flushed>>
                /\ RegisterRetry
                /\ lastCall' = [Call("submitReport", TRUE) EXCEPT
                                  !.calls = ChannelCalls(env, json)]
    /\ heap' = Collect(heap, RefsOf(reportData) \cup RefsOfAll(snap)
                              \cup RefsOfAll(delivered'))
    /\ UNCHANGED <<recVars, snap, env, parentOrigin, handshake, clock, inflight, histVars>>

\* The timer set by submitReport fires: flushPending().  A flush hands each
\* queued payload to trySend as a freshly parsed object.
TimerFires ==
    /\ timers > 0
    /\ timers' = timers - 1
    /\ FlushEffect
    /\ lastCall' = [Call("timer", FlushSends(storage, env)) EXCEPT
                      !.calls = FlushCalls(storage, env)]
    /\ UNCHANGED <<recVars, heap, holdVars, env, parentOrigin, handshake, listeners, clock,
                   submits, inflight, histVars>>

\* The window's online event: every registered copy of flushPending runs, one
\* after the other; after the first the slot is gone or still unusable.
OnlineEvent ==
    /\ listeners.online > 0
    /\ FlushEffect
    /\ lastCall' = [Call("online", FlushSends(storage, env)) EXCEPT
                      !.calls = FlushCalls(storage, env)]
    /\ UNCHANGED <<recVars, heap, holdVars, env, parentOrigin, handshake, listeners, timers,
                   clock, submits, inflight, histVars>>

\* The window's load event.
LoadEvent ==
    /\ listeners.load > 0
    /\ FlushEffect
    /\ lastCall' = [Call("load", FlushSends(storage, env)) EXCEPT
                      !.calls = FlushCalls(storage, env)]
    /\ UNCHANGED <<recVars, heap, holdVars, env, parentOrigin, handshake, listeners, timers,
                   clock, submits, inflight, histVars>>

\* flushPending() taken apart at the points where code of the host runs inside
\* it: trySend calls window.myJsAnalytics.trackGameSession, a function of the
\* host, which may call back into the page before it returns.

\* A trigger starts flushPending: getItem and JSON.parse give a non-empty list.
FlushBegin(trigger) ==
    /\ inflight = <<>>
    /\ FlushSends(storage, env)
    /\ CASE trigger = "timer" -> timers > 0 /\ timers' = timers - 1
         [] trigger = "online" -> listeners.online > 0 /\ UNCHANGED timers
         [] trigger = "load" -> listeners.load > 0 /\ UNCHANGED timers
    /\ inflight' = <<[list |-> storage.list, ids |-> queued, next |-> 1,
                      calling |-> FALSE]>>
    /\ lastCall' = Call(trigger, TRUE)
    /\ UNCHANGED <<recVars, heap, holdVars, env, storage, parentOrigin, handshake,
                   listeners, clock, submits, queued, flushed, histVars>>

\* The next trySend(p) of the forEach; calling: the host's tracking function
\* has been entered.
FlushSendNext ==
    /\ inflight # <<>>
    /\ inflight[1].next <= Len(inflight[1].list)
    /\ LET f == inflight[1] IN
       /\ flushed' = CountFlush(flushed, <<f.ids[f.next]>>)
       /\ inflight' = <<[f EXCEPT !.next = @ + 1,
                                  !.calling = env.tracker # "absent"]>>
       /\ lastCall' = [Call("trySend", TRUE) EXCEPT
                         !.calls = ChannelCalls(env, f.list[f.next])]
    /\ UNCHANGED <<recVars, heap, holdVars, env, storage, parentOrigin, handshake,
                   listeners, timers, clock, submits, queued, histVars>>

\* After the forEach: localStorage.removeItem(LS_KEY).
FlushEnd ==
    /\ inflight # <<>>
    /\ inflight[1].next > Len(inflight[1].list)
    /\ storage' = EmptySlot
    /\ queued' = <<>>
    /\ inflight' = <<>>
    /\ lastCall' = Call("removeItem", TRUE)
    /\ UNCHANGED <<recVars, heap, holdVars, env, parentOrigin, handshake, listeners,
                   timers, clock, submits, flushed, histVars>>

\* The host's tracking function is running inside a flush.
InCallback == inflight # <<>> /\ inflight[1].calling

\* A message event; msg is ev.data after the optional JSON.parse.
MessageEvent(msg) ==
    /\ listeners.message > 0
    /\ parentOrigin' = IF msg.type = "ANALYTICS_CONFIG" /\ msg.parentOrigin # ""
                       THEN msg.parentOrigin ELSE parentOrigin
    /\ handshake' = IF msg.type = "ANALYTICS_CONFIG" /\ msg.parentOrigin # ""
                    THEN msg.parentOrigin ELSE handshake
    /\ lastCall' = [Call("message", TRUE) EXCEPT !.args = <<msg>>]
    /\ UNCHANGED <<recVars, heap, holdVars, env, storage, listeners, timers,
                   clock, submits, queueVars, histVars>>

\* A message event on a window to which no submitReport has added the
\* handshake listener yet: no code of the recorder runs.
MessageUnheard(msg) ==
    /\ listeners.message = 0
    /\ handshake' = IF msg.type = "ANALYTICS_CONFIG" /\ msg.parentOrigin # ""
                    THEN msg.parentOrigin ELSE handshake
    /\ lastCall' = [Call("message", FALSE) EXCEPT !.args = <<msg>>]
    /\ UNCHANGED <<recVars, heap, holdVars, env, storage, parentOrigin, listeners,
                   timers, clock, submits, queueVars, histVars>>

\* ------------------------------------------------------ the world around

\* A bridge appears, disappears or starts failing.
HostChanges(e) ==
    /\ e # env
    /\ env' = e
    /\ lastCall' = Call("host", FALSE)
    /\ UNCHANGED <<recVars, heap, holdVars, storage, parentOrigin, handshake, listeners,
                   timers, clock, submits, queueVars, histVars>>

\* Something else leaves unreadable text in the slot.
StorageCorrupted ==
    /\ storage.kind # "corrupt"
    /\ storage' = CorruptSlot
    /\ queued' = <<>>
    /\ lastCall' = Call("corrupt", FALSE)
    /\ UNCHANGED <<recVars, heap, holdVars, env, parentOrigin, handshake, listeners, timers,
                   clock, submits, inflight, flushed, histVars>>

\* Time passes.
Tick ==
    /\ clock' = clock + 1
    /\ lastCall' = Call("tick", FALSE)
    /\ UNCHANGED <<recVars, heap, holdVars, env, storage, parentOrigin, handshake, listeners,
                   timers, submits, queueVars, histVars>>

\* What a holder of a returned or delivered object can do to one of its
\* containers: zero a stats object, truncate or extend a list, rewrite an entry.
Tamper(field, container) ==
    CASE field = "perLevelAnalytics" ->
           [l \in DOMAIN container |-> [container[l] EXCEPT !.attempts = 0]]
      [] field = "rawData" ->
           IF container = <<>> THEN <<[key |-> "k", value |-> <<"v">>]>> ELSE <<>>
      [] field = "levels" ->
           IF container = <<>> THEN <<NewLevelEntry(titlescreen)>>
           ELSE [container EXCEPT ![1].successful = ~@]

Fields == {"perLevelAnalytics", "rawData", "levels"}

\* The log the history variable `closed` runs parallel to may have been
\* lengthened from outside.
Resync(flags, levels) ==
    [i \in 1..Len(levels) |-> IF i <= Len(flags) THEN flags[i] ELSE FALSE]

\* The caller of getReportData writes into the value it was given.
MutateSnapshot(field) ==
    /\ snap # <<>>
    /\ Tamper(field, heap[snap[1][field]]) # heap[snap[1][field]]
    /\ heap' = [heap EXCEPT ![snap[1][field]] = Tamper(field, @)]
    /\ closed' = Resync(closed, heap'[reportData.levels])
    /\ lastCall' = Call("mutateSnapshot", FALSE)
    /\ UNCHANGED <<recVars, holdVars, dispVars, closes>>

\* The host's tracking function writes into the payload it was given.
MutateDelivered(field) ==
    /\ delivered # <<>>
    /\ Tamper(field, heap[delivered[1][field]]) # heap[delivered[1][field]]
    /\ heap' = [heap EXCEPT ![delivered[1][field]] = Tamper(field, @)]
    /\ closed' = Resync(closed, heap'[reportData.levels])
    /\ lastCall' = Call("mutateDelivered", FALSE)
    /\ UNCHANGED <<recVars, holdVars, dispVars, closes>>

\* ------------------------------------------------------------ the inputs

GameIds == {"g"}
SessionNames == {"s"}
Randoms == {"k3j9x0q2a"}
LevelIds == {level_3_push, level_10_turmoil}
Times == {1, 20000, 25000}
Xps == {0, 120}
\* The game's own rule for the xp argument: 0 for a failure, a positive score
\* for a win.
XpFor(successful) == IF successful THEN 120 ELSE 0
RawValues == {[type |-> "number", num |-> 4, str |-> <<>>],
              [type |-> "string", num |-> 0, str |-> <<"t","r","u","e">>]}
Choices == {"successful", "failed"}

\* ------------------------------------------------ the recorder on its own

\* The tasks recorded in a log, over all its entries.
RECURSIVE TaskCount(_)
TaskCount(levels) ==
    IF levels = <<>> THEN 0
    ELSE Len(levels[Len(levels)].tasks) + TaskCount(SubSeq(levels, 1, Len(levels) - 1))

\* The calls that have changed the session since the last initialize/reset.
SessionSize ==
    Len(Levels) + BagCardinality(closes) + Len(RawData) + TaskCount(Levels)

RecorderNext ==
    \/ \E g \in GameIds, n \in SessionNames, r \in Randoms : Initialize(g, n, r)
    \/ \E v \in RawValues :
          /\ SessionSize < MaxCalls
          /\ AddRawMetric("moves_made", v)
    \/ \E l \in LevelIds :
          /\ SessionSize < MaxCalls
          /\ StartLevel(l)
    \/ \E l \in LevelIds, s \in BOOLEAN, t \in Times :
          /\ SessionSize < MaxCalls
          /\ EndLevel(l, s, t, XpFor(s))
    \/ \E l \in LevelIds, c \in Choices :
          /\ SessionSize < MaxCalls
          /\ RecordTask(l, "move_1", "Move #1: arrowup at position 15",
                        "successful", c, 1, 5)
    \/ Reset

Spec == Init /\ [][RecorderNext]_vars

\* ------------------------------------------- a player working through levels

\* Most attempts in one run of the progression driver.
MaxPlays == 5

ProgressLevelIds ==
    {level_0_titlescreen, level_2_click, level_5_conflict, level_3_push,
     level_10_turmoil, level_10_conflict, titlescreen}

\* Every entry of the log has been closed.
AllClosed == \A i \in 1..Len(closed) : closed[i]

\* The game as puzzle play drives the recorder: a level is opened, then it is
\* closed, then the next one is opened.
ProgressNext ==
    \/ \E g \in GameIds, n \in SessionNames, r \in Randoms : Initialize(g, n, r)
    \/ \E l \in ProgressLevelIds :
          /\ AllClosed
          /\ Len(Levels) < MaxPlays
          /\ StartLevel(l)
    \/ /\ ~AllClosed
       /\ EndLevel(Levels[Len(Levels)].levelId, TRUE, 20000, XpFor(TRUE))

SpecProgress == Init /\ [][ProgressNext]_vars

\* ------------------------------------- values handed out, and their holders

\* A page whose host installed window.myJsAnalytics.trackGameSession.
TrackerPage == [PlainBrowser EXCEPT !.tracker = "ok"]

\* Most recorder calls that change something in a session whose containers
\* someone else may hold.
MaxShared == 3

\* One session of the recorder with a single level, the calls both handout
\* specifications share.
SessionNext ==
    \/ \E g \in GameIds, n \in SessionNames, r \in Randoms : Initialize(g, n, r)
    \/ /\ SessionSize < MaxShared
       /\ StartLevel(level_3_push)
    \/ /\ SessionSize < MaxShared
       /\ EndLevel(level_3_push, TRUE, 20000, XpFor(TRUE))
    \/ /\ SessionSize < MaxShared
       /\ AddRawMetric("moves_made", [type |-> "number", num |-> 4, str |-> <<>>])
    \/ /\ SessionSize < MaxShared
       /\ RecordTask(level_3_push, "move_1", "Move #1: arrowup at position 15",
                     "successful", "successful", 1, 5)
    \/ Reset

\* The recorder in use while a caller holds a value getReportData returned.
SnapshotNext ==
    \/ SessionNext
    \/ GetReportData
    \/ \E f \in Fields : MutateSnapshot(f)

SpecSnapshot == Init /\ [][SnapshotNext]_vars

\* The recorder in use while the host holds a payload submitReport passed to
\* its tracking function.
DeliveryNext ==
    \/ SessionNext
    \/ SubmitReport
    \/ \E f \in Fields : MutateDelivered(f)

SpecDelivery == InitIn(TrackerPage) /\ [][DeliveryNext]_vars

\* ------------------------------------------------ the dispatcher at work

\* The latest reading of the clock the model explores.
MaxClock == 1

\* A React Native WebView: the bridge is there, no parent frame to post to.
WebViewApp == [PlainBrowser EXCEPT !.webview = "ok", !.parent = "throws"]
\* A page none of whose bridges takes a payload.
Unreachable == [PlainBrowser EXCEPT !.parent = "throws"]
\* Bridges that are installed and throw.
BrokenBridges ==
    [PlainBrowser EXCEPT !.tracker = "throws", !.webview = "throws",
                         !.parent = "throws"]
\* The host's tracking function throws; the parent frame takes the payload.
FailingTracker == [PlainBrowser EXCEPT !.tracker = "throws"]
\* No bridge takes a payload and localStorage is denied.
NoStorage == [Unreachable EXCEPT !.localStorage = "throws"]
\* Node or a test runner: no window at all.
NoWindow ==
    [window |-> FALSE, tracker |-> "absent", webview |-> "absent",
     parent |-> "throws", localStorage |-> "throws"]

Hosts ==
    {PlainBrowser, TrackerPage, WebViewApp, Unreachable, BrokenBridges,
     FailingTracker, NoStorage, NoWindow}

Messages ==
    {[type |-> "ANALYTICS_CONFIG", parentOrigin |-> "https://host.example"],
     [type |-> "ANALYTICS_CONFIG", parentOrigin |-> "https://other.example"],
     [type |-> "ANALYTICS_CONFIG", parentOrigin |-> ""],
     [type |-> "OTHER", parentOrigin |-> "https://other.example"]}

\* Reports are submitted while bridges come and go, the retry triggers fire
\* and the stored slot may be damaged.
DispatchNext ==
    \/ \E g \in GameIds, n \in SessionNames, r \in Randoms : Initialize(g, n, r)
    \/ SubmitReport
    \/ TimerFires
    \/ OnlineEvent
    \/ LoadEvent
    \/ \E e \in Hosts : HostChanges(e)
    \/ StorageCorrupted
    \/ /\ clock < MaxClock
       /\ Tick

SpecDispatch == Init /\ [][DispatchNext]_vars

\* ------------------------------------------------ the origin handshake

\* A page in an iframe whose parent sends configuration messages; the parent
\* frame takes payloads or its postMessage throws.
HandshakeNext ==
    \/ \E g \in GameIds, n \in SessionNames, r \in Randoms : Initialize(g, n, r)
    \/ SubmitReport
    \/ TimerFires
    \/ \E msg \in Messages : MessageEvent(msg)
    \/ \E msg \in Messages : MessageUnheard(msg)
    \/ \E e \in {PlainBrowser, Unreachable} : HostChanges(e)

SpecHandshake == Init /\ [][HandshakeNext]_vars

\* --------------------------------------------- retries on one open page

\* The hosts of a page that has a window and a working localStorage: what
\* differs between them is the bridges.
PageHosts == {e \in Hosts : e.window /\ e.localStorage = "ok"}

\* One page that stays open: the game submits, bridges come and go, the
\* retry triggers fire.  Nothing but the page writes its slot.
RetryNext ==
    \/ \E g \in GameIds, n \in SessionNames, r \in Randoms : Initialize(g, n, r)
    \/ SubmitReport
    \/ TimerFires
    \/ OnlineEvent
    \/ LoadEvent
    \/ \E e \in PageHosts : HostChanges(e)

\* A timer that has been set fires: the page stays open and its event loop
\* runs.
SpecRetry == Init /\ [][RetryNext]_vars /\ WF_vars(TimerFires)

\* ------------------------------------- a host that calls back into a flush

\* The page of SpecRetry, with flushPending open to the host's tracking
\* function: while that function runs it may call submitReport or dispatch
\* the online event, whose listeners run at once.
ReentrantNext ==
    \/ /\ inflight = <<>>
       /\ \E g \in GameIds, n \in SessionNames, r \in Randoms : Initialize(g, n, r)
    \/ /\ inflight = <<>>
       /\ SubmitReport
    \/ /\ inflight = <<>>
       /\ \E e \in PageHosts : HostChanges(e)
    \/ \E trigger \in {"timer", "online", "load"} : FlushBegin(trigger)
    \/ FlushSendNext
    \/ FlushEnd
    \/ /\ InCallback
       /\ SubmitReport
    \/ /\ InCallback
       /\ OnlineEvent

SpecReentrant == Init /\ [][ReentrantNext]_vars

\* ----------------------------------- the recorder from its construction on

\* Two games, each with its player, so that a second initialize can differ
\* from the first in both arguments.
LifecycleSessions == {<<"g", "s">>, <<"h", "t">>}

\* Most recorder calls that change something between two initialize/reset
\* calls of this driver.
MaxSession == 2

\* Every public method, callable from the moment the singleton exists:
\* before initialize, during a session, and across initialize and reset.
LifecycleNext ==
    \/ \E session \in LifecycleSessions, r \in Randoms :
          Initialize(session[1], session[2], r)
    \/ /\ SessionSize < MaxSession
       /\ StartLevel(level_3_push)
    \/ \E successful \in BOOLEAN :
          /\ SessionSize < MaxSession
          /\ EndLevel(level_3_push, successful, 20000, XpFor(successful))
    \/ /\ SessionSize < MaxSession
       /\ AddRawMetric("moves_made", [type |-> "number", num |-> 4, str |-> <<>>])
    \/ /\ SessionSize < MaxSession
       /\ RecordTask(level_3_push, "move_1", "Move #1: arrowup at position 15",
                     "successful", "successful", 1, 5)
    \/ Reset
    \/ GetReportData
    \/ SubmitReport

SpecLifecycle == Init /\ [][LifecycleNext]_vars

\* ------------------------------------- reading the recorder in any host

\* One session of the recorder, then its reading: getReportData and
\* submitReport calls while the bridges and the storage of the page come and
\* go.
ReadingNext ==
    \/ /\ submits = 0 /\ snap = <<>>
       /\ SessionNext
    \/ GetReportData
    \/ SubmitReport
    \/ \E e \in Hosts : HostChanges(e)
    \/ StorageCorrupted

SpecReading == Init /\ [][ReadingNext]_vars

\* --------------------------------------------- the page and its unloading

\* window.currentLevelId as the game keeps it: the id it gave to its latest
\* startLevel call, EmptyString (undefined) before the first.
CurrentLevelId ==
    IF Levels = <<>> THEN EmptyString ELSE Levels[Len(Levels)].levelId

\* window.levelStartTime > 0: the game has written Date.now() into it, which
\* it does where it sets window.currentLevelId.
LevelStartTimeSet == Levels # <<>>

\* The page has run its beforeunload listener and is gone.
Unloaded == lastCall.op = "beforeunload"

\* The beforeunload listener of index.js: when a level is current and its
\* latest entry does not read successful, endLevel(currentLevelId, false,
\* timeTaken, 0) and then submitReport(), which sends what endLevel left.
BeforeUnload(timeTaken) ==
    LET level == GetLevelById(Levels, CurrentLevelId) IN
    /\ ~Unloaded
    /\ UNCHANGED <<isInitialized, gameId, sessionName, sessionId, snap, env,
                   parentOrigin, handshake, clock, inflight>>
    /\ IF /\ CurrentLevelId # EmptyString /\ LevelStartTimeSet
          /\ level # 0 /\ ~Levels[level].successful
       THEN LET levelId == CurrentLevelId
                total == reportData.xpEarnedTotal
                ended == [heap EXCEPT
                            ![reportData.levels] =
                                [@ EXCEPT ![level] =
                                    [@ EXCEPT !.successful = FALSE,
                                              !.timeTaken = timeTaken,
                                              !.xpEarned = 0]],
                            ![reportData.perLevelAnalytics] =
                                UpdatePerLevelAnalytics(@, levelId, FALSE,
                                                        timeTaken, 0)]
            IN  /\ reportData' =
                     [reportData EXCEPT
                        !.xpEarnedTotal = total,
                        !.xpEarned = total,
                        !.xpTotal = total,
                        !.bestXp = total,
                        !.lastPlayedLevel = levelId,
                        !.highestLevelPlayed = UpdateHighestLevel(@, levelId)]
                /\ closes' = closes (+) SetToBag({[levelId |-> levelId,
                                                     successful |-> FALSE,
                                                     timeTakenMs |-> timeTaken,
                                                     xp |-> 0]})
                /\ closed' = [closed EXCEPT ![level] = TRUE]
                /\ submits' = submits + 1
                /\ LET payload == SubmitPayload'
                       json == JsonOf(ended, payload)
                       ok == TrySend(env)
                   IN  /\ delivered' = IF ok.tracked THEN <<payload>> ELSE delivered
                       /\ storage' = IF ~ok.sent
                                     THEN SavePending(storage, env, json)
                                     ELSE storage
                       /\ IF storage' # storage
                          THEN /\ queued' = Append(queued, Len(flushed) + 1)
                               /\ flushed' = Append(flushed, 0)
                          ELSE UNCHANGED <<queued, flushed>>
                       /\ RegisterRetry
                       /\ heap' = Collect(ended, RefsOf(reportData')
                                                   \cup RefsOfAll(snap)
                                                   \cup RefsOfAll(delivered'))
                       /\ lastCall' = [Call("beforeunload", TRUE) EXCEPT
                                         !.calls = ChannelCalls(env, json)]
       ELSE /\ lastCall' = Call("beforeunload", FALSE)
            /\ UNCHANGED <<reportData, heap, delivered, storage, listeners,
                           timers, submits, queued, flushed, histVars>>

\* Most startLevel calls of the game before the page goes.
MaxAttempts == 2

\* index.js and the game around the recorder: initialize once when the page
\* loads; a puzzle is set up (startLevel), moves are made (recordTask), the
\* puzzle is won or lost (endLevel of the current level, once per attempt);
\* at any moment the page may be left.
UnloadNext ==
    \/ \E g \in GameIds, n \in SessionNames, r \in Randoms :
          /\ ~isInitialized /\ ~Unloaded
          /\ Initialize(g, n, r)
    \/ \E l \in LevelIds :
          /\ isInitialized /\ ~Unloaded
          /\ Len(Levels) < MaxAttempts
          /\ StartLevel(l)
    \/ /\ isInitialized /\ ~Unloaded
       /\ Levels # <<>> /\ ~closed[Len(closed)]
       /\ TaskCount(Levels) < MaxAttempts
       /\ RecordTask(CurrentLevelId, "move_1", "Move #1: arrowup at position 15",
                     "successful", "successful", 1, 5)
    \/ \E s \in BOOLEAN, t \in Times :
          /\ isInitialized /\ ~Unloaded
          /\ Levels # <<>> /\ ~closed[Len(closed)]
          /\ EndLevel(CurrentLevelId, s, t, XpFor(s))
    \/ \E t \in Times : isInitialized /\ BeforeUnload(t)
    \/ \E e \in {PlainBrowser, Unreachable} :
          ~Unloaded /\ HostChanges(e)

SpecUnload == Init /\ [][UnloadNext]_vars

\* ============================================================== claims

\* The closes of one level in the history.
ClosesOf(levelId) == {c \in BagToSet(closes) : c.levelId = levelId}

\* The sum of timeTakenMs over a bag of closes.
RECURSIVE SumTimes(_)
SumTimes(bag) ==
    IF BagToSet(bag) = {} THEN 0
    ELSE LET c == CHOOSE x \in BagToSet(bag) : TRUE IN
         c.timeTakenMs + SumTimes(bag (-) SetToBag({c}))

\* The part of the history bag that belongs to one level.
BagOfLevel(levelId) ==
    [c \in ClosesOf(levelId) |-> closes[c]]

\* C1: every per-level aggregate that exists has attempts = wins + losses,
\* and none of the three counters is negative.
C1_AttemptsAreWinsPlusLosses ==
    \A l \in DOMAIN PerLevelAnalytics :
        LET stats == PerLevelAnalytics[l] IN
        /\ stats.attempts = stats.wins + stats.losses
        /\ stats.attempts >= 0
        /\ stats.wins >= 0
        /\ stats.losses >= 0

\* C1 witness: a level closed both as a win and as a loss, in a session that
\* also holds a task and a raw metric.
C1_Witness ==
    /\ \E l \in DOMAIN PerLevelAnalytics :
          PerLevelAnalytics[l].wins >= 1 /\ PerLevelAnalytics[l].losses >= 1
    /\ TaskCount(Levels) + Len(RawData) >= 1

\* Every close so far hit an attempt of its own: no entry was closed twice.
EachEntryClosedOnce ==
    BagCardinality(closes) = Cardinality({i \in 1..Len(closed) : closed[i]})

\* C2: over any sequence of closed attempts (each closed once, wins and
\* losses in any order), bestTimeMs is 0 while the level has no winning close
\* and is otherwise the least timeTakenMs over its winning closes (so, after
\* the first win, that win's time).
C2_BestTimeIsMinimumOverWins ==
    EachEntryClosedOnce =>
        \A l \in DOMAIN PerLevelAnalytics :
            LET wins == {c \in ClosesOf(l) : c.successful} IN
            IF wins = {} THEN PerLevelAnalytics[l].bestTimeMs = 0
            ELSE /\ \E c \in wins : PerLevelAnalytics[l].bestTimeMs = c.timeTakenMs
                 /\ \A c \in wins : PerLevelAnalytics[l].bestTimeMs <= c.timeTakenMs

\* The session of the class comment: level_3_push lost in 25000 ms, started
\* again and won in 20000 ms for 120 xp, and nothing else.
ExampleSession ==
    /\ isInitialized /\ gameId = "g" /\ sessionName = "s"
    /\ Levels = <<[NewLevelEntry(level_3_push) EXCEPT !.timeTaken = 25000],
                  [NewLevelEntry(level_3_push) EXCEPT
                     !.successful = TRUE, !.timeTaken = 20000, !.xpEarned = 120]>>
    /\ closes = SetToBag({[levelId |-> level_3_push, successful |-> FALSE,
                           timeTakenMs |-> 25000, xp |-> 0],
                          [levelId |-> level_3_push, successful |-> TRUE,
                           timeTakenMs |-> 20000, xp |-> 120]})
    /\ RawData = <<>>

\* C3: the example session ends with the documented aggregate, both
\* progression markers at level_3_push and 120 xp in total.
C3_ExampleSessionResult ==
    ExampleSession =>
        /\ DOMAIN PerLevelAnalytics = {level_3_push}
        /\ PerLevelAnalytics[level_3_push] =
             [attempts |-> 2, wins |-> 1, losses |-> 1, totalTimeMs |-> 45000,
              bestTimeMs |-> 20000, totalXp |-> 120, averageTimeMs |-> 22500]
        /\ reportData.lastPlayedLevel = level_3_push
        /\ reportData.highestLevelPlayed = level_3_push
        /\ reportData.xpEarnedTotal = 120

\* C4: for every level with an aggregate, totalTimeMs is the sum of the
\* times of all closes of that level since initialize/reset, and averageTimeMs
\* is totalTimeMs / attempts rounded to the nearest integer, a half going up:
\* average - 1/2 <= total / attempts < average + 1/2.
C4_AverageIsRoundedMean ==
    \A l \in DOMAIN PerLevelAnalytics :
        LET stats == PerLevelAnalytics[l] IN
        /\ stats.totalTimeMs = SumTimes(BagOfLevel(l))
        /\ stats.attempts = BagCardinality(BagOfLevel(l))
        /\ stats.attempts > 0
        /\ 2 * stats.attempts * stats.averageTimeMs
              <= 2 * stats.totalTimeMs + stats.attempts
        /\ 2 * stats.totalTimeMs + stats.attempts
              < 2 * stats.attempts * (stats.averageTimeMs + 1)

\* C4 witness: a mean that falls exactly on a half (20001 / 2) and was
\* rounded up.
C4_Witness ==
    \E l \in DOMAIN PerLevelAnalytics :
        /\ PerLevelAnalytics[l].attempts = 2
        /\ PerLevelAnalytics[l].totalTimeMs = 20001
        /\ PerLevelAnalytics[l].averageTimeMs = 10001

\* The numeric indices of the levels of the attempt log, in order.
PlayedIndices ==
    [i \in 1..Len(Levels) |-> ExtractLevelNumber(Levels[i].levelId)]

\* C5: from a fresh initialize, after levels with indices 0, 2, 5, 3, 10 were
\* opened and closed in that order highestLevelPlayed is the id that gave 10;
\* after 0, 2, 5, 3 it is the id that gave 5.
C5_HighestAfterDocumentedProgression ==
    (isInitialized /\ AllClosed) =>
        /\ (PlayedIndices = <<0, 2, 5, 3, 10>> =>
              reportData.highestLevelPlayed = Levels[5].levelId)
        /\ (PlayedIndices = <<0, 2, 5, 3>> =>
              reportData.highestLevelPlayed = Levels[3].levelId)

\* C5 witness: the five levels of the documented progression have been
\* closed and the marker stands at level_10_turmoil.
C5_Witness ==
    /\ isInitialized /\ AllClosed
    /\ PlayedIndices = <<0, 2, 5, 3, 10>>
    /\ reportData.highestLevelPlayed = level_10_turmoil
    /\ lastCall = Call("endLevel", TRUE)

\* C6: an endLevel whose levelId has no entry in the attempt log changes
\* neither the log, nor any aggregate, nor the raw metrics, nor the totals and
\* markers of reportData.
C6_UnknownLevelCloseChangesNothing ==
    [][(lastCall'.op = "endLevel" /\ ~lastCall'.found) =>
          /\ reportData' = reportData
          /\ Levels' = Levels
          /\ PerLevelAnalytics' = PerLevelAnalytics
          /\ RawData' = RawData
          /\ isInitialized' = isInitialized]_vars

\* C6 witness: endLevel has just been turned away for an unknown level while
\* another level has an open entry and the session already has a marker and an
\* aggregate to lose.
C6_Witness ==
    /\ lastCall.op = "endLevel" /\ ~lastCall.found
    /\ Levels # <<>>
    /\ DOMAIN PerLevelAnalytics # {}
    /\ reportData.lastPlayedLevel # EmptyString

\* C7: for every level id, the attempts counter of its aggregate (0 when it
\* has none) is the number of attempt-log entries with that id that have been
\* closed, and so is at most the number of startLevel calls for that id.
C7_EachAttemptCountedOnce ==
    \A l \in LevelIds :
        LET attempts == IF l \in DOMAIN PerLevelAnalytics
                        THEN PerLevelAnalytics[l].attempts ELSE 0
            closedEntries == {i \in 1..Len(Levels) :
                                Levels[i].levelId = l /\ closed[i]}
            startedEntries == {i \in 1..Len(Levels) : Levels[i].levelId = l}
        IN  /\ attempts = Cardinality(closedEntries)
            /\ attempts <= Cardinality(startedEntries)

\* Everything the recorder holds, containers read through their references.
RecorderView ==
    <<isInitialized, gameId, sessionName, sessionId, Deref(heap, reportData)>>

\* C8: a write by the caller into a value getReportData returned (its
\* per-level table, raw-metric list, attempt log, entries or task lists)
\* leaves the recorder's state, and so every later snapshot, as it was.
C8_SnapshotIsIndependentCopy ==
    [][lastCall'.op = "mutateSnapshot" => RecorderView' = RecorderView]_vars

\* C8 witness: the caller has just written into a snapshot of a session
\* that has an attempt, an aggregate and a raw metric.
C8_Witness ==
    /\ lastCall.op = "mutateSnapshot"
    /\ Levels # <<>> /\ RawData # <<>> /\ DOMAIN PerLevelAnalytics # {}
    /\ Deref(heap, snap[1]).levels # Levels

RecorderCalls == {"startLevel", "endLevel", "recordTask", "addRawMetric", "reset"}

\* C9: once submitReport has passed a payload to the host tracking function,
\* later startLevel, endLevel, recordTask, addRawMetric and reset calls do not
\* change what that payload holds, and what the receiver writes into it does
\* not change the recorder.
C9_DeliveredPayloadIsImmutableCopy ==
    [][/\ (/\ delivered # <<>>
           /\ delivered' = delivered
           /\ lastCall'.op \in RecorderCalls)
          => Deref(heap', delivered[1]) = Deref(heap, delivered[1])
       /\ lastCall'.op = "mutateDelivered" => RecorderView' = RecorderView]_vars

\* C10, on a page with a window and a working localStorage: a submitReport
\* of an initialized recorder appends its payload to the stored queue (an
\* unreadable slot counting as an empty queue) if and only if no bridge took
\* the payload, and leaves the slot alone when one did.
C10_QueuedIffNoChannelAccepted ==
    [][(/\ lastCall'.op = "submitReport" /\ lastCall'.found
        /\ env.window /\ env.localStorage = "ok")
          => IF TrySend(env).sent
             THEN storage' = storage
             ELSE storage' = ListSlot(Append(storage.list,
                                             JsonOf(heap, SubmitPayload)))]_vars

\* No host tracking function, no webview bridge, and a parent frame whose
\* postMessage throws.
NoChannel(e) ==
    e.tracker = "absent" /\ e.webview = "absent" /\ e.parent = "throws"

\* The slot holds no payload and is readable.
QueueEmpty == storage.kind # "corrupt" /\ storage.list = <<>>

\* C11, on a page with a window and a working localStorage: a submitReport of
\* an initialized recorder that finds no channel and an empty stored queue
\* returns the payload and leaves the queue holding exactly that payload.
C11_NoChannelReturnsAndQueues ==
    [][(/\ lastCall'.op = "submitReport" /\ lastCall'.found
        /\ env.window /\ env.localStorage = "ok"
        /\ NoChannel(env) /\ QueueEmpty)
          => /\ lastCall'.returned = <<JsonOf(heap, SubmitPayload)>>
             /\ storage' = ListSlot(<<JsonOf(heap, SubmitPayload)>>)]_vars

\* C12: every submitReport of an initialized recorder returns the payload it
\* built, whether a channel took it, it was queued, or there is no window.
C12_SubmitAlwaysReturnsPayload ==
    [][(lastCall'.op = "submitReport" /\ lastCall'.found)
          => lastCall'.returned = <<JsonOf(heap, SubmitPayload)>>]_vars

\* The operations that run flushPending.
FlushTriggers == {"timer", "online", "load"}

\* The three bridges of trySend, in the order it tries them.
Bridges == {"tracker", "webview", "parent"}

\* The log holds a call of bridge b with payload p that ended as the
\* environment makes that bridge end.
Attempted(made, e, b, p) ==
    \E i \in 1..Len(made) :
        made[i].channel = b /\ made[i].payload = p /\ made[i].outcome = e[b]

\* Some bridge call in the log was accepted.
SomeAccepted(made) ==
    \E i \in 1..Len(made) : made[i].channel \in Bridges /\ made[i].outcome = "ok"

\* C13: in every send, by submitReport or by a flush, every installed bridge
\* is called whatever the bridges before it did, and a submitReport one of
\* whose bridge calls was accepted counts as sent (nothing is queued) even when
\* another bridge threw.
C13_ChannelsAttemptedIndependently ==
    [][/\ (lastCall'.op = "submitReport" /\ lastCall'.found /\ env.window)
          => /\ \A b \in Bridges :
                   env[b] # "absent"
                     => Attempted(lastCall'.calls, env, b,
                                  JsonOf(heap, SubmitPayload))
             /\ SomeAccepted(lastCall'.calls) => storage' = storage
       /\ (lastCall'.op \in FlushTriggers /\ lastCall'.found)
          => \A k \in 1..Len(storage.list), b \in Bridges :
                env[b] # "absent"
                  => Attempted(lastCall'.calls, env, b, storage.list[k])]_vars

\* A submitReport in which one bridge threw and a later bridge took the
\* payload.
C13_Witness ==
    /\ lastCall.op = "submitReport"
    /\ \E i, j \in 1..Len(lastCall.calls) :
          /\ i < j
          /\ lastCall.calls[i].outcome = "throws"
          /\ lastCall.calls[j].outcome = "ok"
          /\ lastCall.calls[j].channel \in Bridges

\* The payloads a log shows being sent, one per trySend (each trySend calls
\* the parent frame once), in the order of the sends.
RECURSIVE SentPayloads(_)
SentPayloads(made) ==
    IF made = <<>> THEN <<>>
    ELSE IF Head(made).channel = "parent"
         THEN <<Head(made).payload>> \o SentPayloads(Tail(made))
         ELSE SentPayloads(Tail(made))

\* C14: a flushPending that finds a readable, non-empty queue sends every
\* queued payload once, oldest first, and leaves the slot empty whether or not
\* any send was accepted; no payload is ever sent by more than one flush.
C14_FlushSendsEachOnceAndClears ==
    [][(lastCall'.op \in FlushTriggers /\ FlushSends(storage, env))
          => /\ SentPayloads(lastCall'.calls) = storage.list
             /\ storage' = EmptySlot
             /\ \A n \in 1..Len(flushed') : flushed'[n] <= 1]_vars

\* A flush has sent two queued payloads, no bridge took either, and the slot
\* is empty.
C14_Witness ==
    /\ lastCall.op \in FlushTriggers
    /\ Len(SentPayloads(lastCall.calls)) = 2
    /\ ~SomeAccepted(lastCall.calls)
    /\ storage = EmptySlot
    /\ flushed = <<1, 1>>

\* C15: a flushPending that finds the slot absent or holding an empty list
\* calls no bridge and changes nothing: not the slot, not the recorder, not
\* what callers hold, not the registrations.
C15_FlushOfEmptyQueueDoesNothing ==
    [][(lastCall'.op \in FlushTriggers /\ QueueEmpty)
          => /\ lastCall'.calls = <<>>
             /\ storage' = storage
             /\ UNCHANGED <<recVars, heap, holdVars, env, parentOrigin,
                            listeners, clock, submits, queueVars, histVars>>]_vars

\* A flush has run where localStorage works and the slot was absent.
C15_Witness ==
    /\ lastCall.op \in FlushTriggers
    /\ ~lastCall.found
    /\ env.localStorage = "ok"
    /\ storage = EmptySlot

\* Payload number n is in the slot.
InQueue(n) == \E i \in 1..Len(queued) : queued[i] = n

\* Payload number n has been sent by a flush and is no longer in the slot.
Retried(n) == n <= Len(flushed) /\ flushed[n] >= 1 /\ ~InQueue(n)

\* C16, on a page that stays open with a working localStorage: every
\* submitReport that gets as far as sending sets a timer for flushPending and
\* has flushPending listening to online and load; and, the timers firing,
\* every payload put in the slot is later sent by a flush and removed, and
\* from some point on the slot holds no payload.
C16_QueuedPayloadsAreRetried ==
    /\ [][(lastCall'.op = "submitReport" /\ lastCall'.found)
             => /\ timers' = timers + 1
                /\ listeners'.online > 0
                /\ listeners'.load > 0]_vars
    /\ \A n \in 1..MaxSubmits : InQueue(n) ~> Retried(n)
    /\ <>[](storage.list = <<>>)

\* The timer's flush has sent a queued payload and removed it.
C16_Witness ==
    /\ lastCall.op = "timer"
    /\ lastCall.found
    /\ Retried(1)
    /\ storage = EmptySlot

\* C17: an unreadable slot counts as an empty queue: a submitReport that no
\* bridge takes, made while the slot is unreadable, leaves the slot holding
\* exactly the new payload, and a flushPending on an unreadable slot calls no
\* bridge.
C17_UnreadableSlotIsEmptyQueue ==
    [][/\ (/\ lastCall'.op = "submitReport" /\ lastCall'.found
            /\ env.window /\ env.localStorage = "ok"
            /\ ~SomeAccepted(lastCall'.calls)
            /\ storage.kind = "corrupt")
          => storage' = ListSlot(<<JsonOf(heap, SubmitPayload)>>)
       /\ (lastCall'.op \in FlushTriggers /\ storage.kind = "corrupt")
          => lastCall'.calls = <<>>]_vars

SessionCalls ==
    {"startLevel", "endLevel", "recordTask", "addRawMetric", "submitReport"}

\* C19: before the first initialize, startLevel, endLevel, recordTask,
\* addRawMetric and submitReport change nothing of the recorder; submitReport
\* builds and returns no payload, calls no bridge, leaves the stored slot as
\* it is and registers nothing.
C19_NoOpsBeforeInitialize ==
    [][(~isInitialized /\ lastCall'.op \in SessionCalls)
          => /\ ~lastCall'.found
             /\ lastCall'.calls = <<>>
             /\ lastCall'.returned = <<>>
             /\ UNCHANGED <<recVars, heap, holdVars, env, storage, parentOrigin,
                            listeners, timers, clock, queueVars, histVars>>]_vars

\* submitReport has been called on a recorder never initialized, on a page
\* whose parent frame would have taken a payload.
C19_Witness ==
    /\ ~isInitialized
    /\ lastCall.op = "submitReport"
    /\ env.parent = "ok"

\* C20: initialize, whenever it is called, leaves an empty attempt log, an
\* empty raw-metric list, an empty per-level table, the four reward totals at
\* 0, both progression markers empty, gameId and name equal to its arguments,
\* and the recorder initialized.
C20_InitializeStartsFreshSession ==
    [][lastCall'.op = "initialize"
          => /\ Levels' = <<>>
             /\ RawData' = <<>>
             /\ PerLevelAnalytics' = <<>>
             /\ reportData'.xpEarnedTotal = 0
             /\ reportData'.xpEarned = 0
             /\ reportData'.xpTotal = 0
             /\ reportData'.bestXp = 0
             /\ reportData'.lastPlayedLevel = EmptyString
             /\ reportData'.highestLevelPlayed = EmptyString
             /\ reportData'.gameId = lastCall'.args[1]
             /\ reportData'.name = lastCall'.args[2]
             /\ gameId' = lastCall'.args[1]
             /\ sessionName' = lastCall'.args[2]
             /\ isInitialized']_vars

\* initialize has just run for another game and player, while a caller still
\* holds a snapshot of the session before it, in which a level was won.
C20_Witness ==
    /\ lastCall.op = "initialize"
    /\ snap # <<>>
    /\ snap[1].gameId # gameId
    /\ snap[1].name # sessionName
    /\ snap[1].xpEarnedTotal > 0
    /\ heap[snap[1].levels] # <<>>
    /\ Levels = <<>>

\* C21: reset empties the attempt log, the raw-metric list and the per-level
\* table and sets the four reward totals to 0 and both progression markers to
\* empty; gameId, sessionId, name and the initialized flag stay as they were.
C21_ResetKeepsIdentity ==
    [][lastCall'.op = "reset"
          => /\ Levels' = <<>>
             /\ RawData' = <<>>
             /\ PerLevelAnalytics' = <<>>
             /\ reportData'.xpEarnedTotal = 0
             /\ reportData'.xpEarned = 0
             /\ reportData'.xpTotal = 0
             /\ reportData'.bestXp = 0
             /\ reportData'.lastPlayedLevel = EmptyString
             /\ reportData'.highestLevelPlayed = EmptyString
             /\ reportData'.gameId = reportData.gameId
             /\ reportData'.sessionId = reportData.sessionId
             /\ reportData'.name = reportData.name
             /\ UNCHANGED <<isInitialized, gameId, sessionName, sessionId>>]_vars

\* reset has just run on an initialized recorder while a caller holds a
\* snapshot of the same session from before it, with a won level in it.
C21_Witness ==
    /\ lastCall.op = "reset"
    /\ isInitialized
    /\ snap # <<>>
    /\ snap[1].sessionId = reportData.sessionId
    /\ snap[1].gameId = reportData.gameId
    /\ snap[1].xpEarnedTotal > 0
    /\ heap[snap[1].levels] # <<>>
    /\ Levels = <<>>
    /\ reportData.xpEarnedTotal = 0

\* The sum of xp over a bag of closes.
RECURSIVE SumXp(_)
SumXp(bag) ==
    IF BagToSet(bag) = {} THEN 0
    ELSE LET c == CHOOSE x \in BagToSet(bag) : TRUE IN
         c.xp + SumXp(bag (-) SetToBag({c}))

\* C22: in every state xpEarned, xpTotal and bestXp equal xpEarnedTotal, and
\* xpEarnedTotal is the sum of the xp arguments of the endLevel calls that
\* found an entry since the last initialize or reset.
C22_RewardMirrorsAndSum ==
    /\ reportData.xpEarned = reportData.xpEarnedTotal
    /\ reportData.xpTotal = reportData.xpEarnedTotal
    /\ reportData.bestXp = reportData.xpEarnedTotal
    /\ reportData.xpEarnedTotal = SumXp(closes)

\* Two endLevel calls have found an entry since the last initialize or
\* reset, each with xp 120.
C22_Witness ==
    /\ reportData.xpEarnedTotal = 240
    /\ reportData.bestXp = 240
    /\ BagCardinality(closes) = 2
    /\ lastCall.op = "endLevel"

\* The target window.parent.postMessage should be given: the origin of the
\* last handshake the window received, the wildcard while there was none.
HandshakeTarget == IF handshake = "" THEN "*" ELSE handshake

\* C23: every call of the parent frame, in a submitReport or in a flush,
\* targets the parentOrigin of the most recent ANALYTICS_CONFIG message the
\* window has received, whenever that was, and the wildcard when there was
\* none; a message of another shape leaves the target as it is.
C23_ParentTargetFollowsHandshake ==
    [][/\ \A i \in 1..Len(lastCall'.calls) :
             lastCall'.calls[i].channel = "parent"
               => lastCall'.calls[i].target = HandshakeTarget
       /\ (lastCall'.op = "message" /\ lastCall'.args[1].type # "ANALYTICS_CONFIG")
             => parentOrigin' = parentOrigin]_vars

\* The log holds a console.log of payload p.
OnConsole(made, p) ==
    \E i \in 1..Len(made) : made[i].channel = "console" /\ made[i].payload = p

\* The log holds a bridge call that took payload p.
AcceptedBy(made, p) ==
    \E i \in 1..Len(made) :
        made[i].channel \in Bridges /\ made[i].payload = p /\ made[i].outcome = "ok"

\* C24, on a page with a window and a working localStorage: a payload is
\* written to the console only in a send none of whose bridges took it, and a
\* submitReport whose payload went to the console only appends it to the
\* stored queue (an unreadable slot counting as an empty queue).
C24_ConsoleIsNoDelivery ==
    [][(env.window /\ env.localStorage = "ok")
          => /\ \A i \in 1..Len(lastCall'.calls) :
                   ~(/\ OnConsole(lastCall'.calls, lastCall'.calls[i].payload)
                     /\ AcceptedBy(lastCall'.calls, lastCall'.calls[i].payload))
             /\ (/\ lastCall'.op = "submitReport"
                 /\ OnConsole(lastCall'.calls, JsonOf(heap, SubmitPayload)))
                   => storage' = ListSlot(Append(storage.list,
                                                 JsonOf(heap, SubmitPayload)))]_vars

\* The level ids closed by the step: those of the records it added to closes.
ClosedByStep ==
    {c.levelId : c \in {d \in BagToSet(closes') :
                            CopiesIn(d, closes') > CopiesIn(d, closes)}}

ClosesOfStep ==
    {d \in BagToSet(closes') : CopiesIn(d, closes') > CopiesIn(d, closes)}

\* Entry k of the log is the most recently appended one with levelId l.
IsLatestWith(k, l) ==
    /\ k \in 1..Len(Levels)
    /\ Levels[k].levelId = l
    /\ \A j \in (k + 1)..Len(Levels) : Levels[j].levelId # l

\* C26: a startLevel of an initialized recorder appends one fresh entry to the
\* log whatever entries the log holds; an endLevel that finds its level writes
\* successful, timeTaken and xpEarned of the most recently appended entry with
\* that levelId and leaves every other entry of the log as it was.
C26_StartAppendsEndTargetsLatest ==
    [][/\ (lastCall'.op = "startLevel" /\ lastCall'.found) =>
             /\ Len(Levels') = Len(Levels) + 1
             /\ SubSeq(Levels', 1, Len(Levels)) = Levels
             /\ Levels'[Len(Levels')] = NewLevelEntry(Levels'[Len(Levels')].levelId)
       /\ (lastCall'.op = "endLevel" /\ lastCall'.found) =>
             \E c \in ClosesOfStep, k \in 1..Len(Levels) :
                 /\ IsLatestWith(k, c.levelId)
                 /\ Len(Levels') = Len(Levels)
                 /\ \A i \in 1..Len(Levels) : i # k => Levels'[i] = Levels[i]
                 /\ Levels'[k] = [Levels[k] EXCEPT !.successful = c.successful,
                                                   !.timeTaken = c.timeTakenMs,
                                                   !.xpEarned = c.xp]]_vars

\* C26 witness: level_3_push was started twice and level_10_turmoil once in
\* between; an endLevel of level_3_push has just written a win into the third
\* entry, and the first entry still has the fields startLevel gave it.
C26_Witness ==
    /\ lastCall.op = "endLevel" /\ lastCall.found
    /\ Len(Levels) = 3
    /\ Levels[1] = NewLevelEntry(level_3_push)
    /\ Levels[2] = NewLevelEntry(level_10_turmoil)
    /\ Levels[3] = [NewLevelEntry(level_3_push) EXCEPT !.successful = TRUE,
                                                      !.timeTaken = 20000,
                                                      !.xpEarned = 120]

\* C27: a recordTask that finds its level appends one task, whose successful
\* flag says whether correctChoice and choiceMade are equal, to the tasks of
\* the most recently appended entry with that levelId, and changes no other
\* entry, no other field of that entry, no aggregate, no raw metric and no
\* field of reportData; a recordTask that finds no entry changes none of them.
C27_TaskGoesToLatestEntry ==
    [][lastCall'.op = "recordTask" =>
          /\ UNCHANGED <<reportData, isInitialized, gameId, sessionName, sessionId>>
          /\ PerLevelAnalytics' = PerLevelAnalytics
          /\ RawData' = RawData
          /\ IF lastCall'.found
             THEN \E k \in 1..Len(Levels) :
                     LET new == Levels'[k].tasks[Len(Levels'[k].tasks)] IN
                     /\ IsLatestWith(k, Levels[k].levelId)
                     /\ Len(Levels') = Len(Levels)
                     /\ \A i \in 1..Len(Levels) : i # k => Levels'[i] = Levels[i]
                     /\ Len(Levels'[k].tasks) = Len(Levels[k].tasks) + 1
                     /\ Levels'[k] = [Levels[k] EXCEPT !.tasks = Append(@, new)]
                     /\ new.successful = (new.correctChoice = new.choiceMade)
             ELSE Levels' = Levels]_vars

\* C27 witness: level_3_push has two entries; a recordTask with a wrong choice
\* has just put an unsuccessful task into the second, after a successful one,
\* and the first has no task.
C27_Witness ==
    /\ lastCall.op = "recordTask" /\ lastCall.found
    /\ Len(Levels) = 2
    /\ Levels[1] = NewLevelEntry(level_3_push)
    /\ Levels[2].levelId = level_3_push
    /\ Len(Levels[2].tasks) = 2
    /\ Levels[2].tasks[1].successful
    /\ ~Levels[2].tasks[2].successful
    /\ Levels[2].tasks[2].choiceMade # Levels[2].tasks[2].correctChoice

\* C28: in a step other than initialize and reset, an entry of the log that an
\* endLevel has closed keeps its successful, timeTaken and xpEarned and gets
\* no further task.
C28_ClosedAttemptIsFinal ==
    [][lastCall'.op \notin {"initialize", "reset"} =>
          \A i \in 1..Len(closed) :
              closed[i] =>
                  /\ i \in 1..Len(Levels')
                  /\ Levels'[i].successful = Levels[i].successful
                  /\ Levels'[i].timeTaken = Levels[i].timeTaken
                  /\ Levels'[i].xpEarned = Levels[i].xpEarned
                  /\ Levels'[i].tasks = Levels[i].tasks]_vars

\* C29: once an endLevel has found its level since the last initialize or
\* reset, highestLevelPlayed is not empty; and when the one close so far was
\* of a level whose index is 0, highestLevelPlayed is the id of that level.
C29_FirstCloseSetsHighest ==
    BagCardinality(closes) >= 1 =>
        /\ reportData.highestLevelPlayed # EmptyString
        /\ \A c \in BagToSet(closes) :
              (BagCardinality(closes) = 1 /\ ExtractLevelNumber(c.levelId) = 0)
                  => reportData.highestLevelPlayed = c.levelId

\* C30: whatever number of submitReport calls has been made, the window has
\* at most one flushPending listener of online, at most one of load and at
\* most one handshake listener of message.
C30_HandlersRegisteredOnce ==
    /\ listeners.online <= 1
    /\ listeners.load <= 1
    /\ listeners.message <= 1

\* ------------------------------- the other version of the class (part_002)

\* The state of the part_002 class: its _isInitialized and its _reportData,
\* containers written out.  Its _getLevelById, _updatePerLevelAnalytics and
\* _updateHighestLevel, and the objects startLevel and recordTask push, read
\* as those of part_000 and are the operators above.
Version2State == [isInitialized |-> isInitialized, reportData |-> Deref(heap, reportData)]

\* levelId.match(/level_(\d+)$/): the digits that end the string right after
\* "level_", <<>> when the string does not end so.
TrailingLevelDigits(levelId) ==
    LET starts == {i \in 1..(Len(levelId) - 6) :
                     /\ SubSeq(levelId, i, i + 5) = <<"l","e","v","e","l","_">>
                     /\ \A k \in (i + 6)..Len(levelId) : levelId[k] \in Digits}
    IN  IF starts = {} THEN <<>>
        ELSE LET first == CHOOSE i \in starts : \A j \in starts : i <= j
             IN  SubSeq(levelId, first + 6, Len(levelId))

\* part_002 _extractLevelNumber
Version2ExtractLevelNumber(levelId) ==
    IF levelId = EmptyString THEN 0
    ELSE LET match == TrailingLevelDigits(levelId) IN
         IF match # <<>> THEN ParseInt(match) ELSE 0

\* part_002 _updateHighestLevel
Version2UpdateHighestLevel(highestLevelPlayed, levelId) ==
    IF Version2ExtractLevelNumber(levelId)
         > Version2ExtractLevelNumber(highestLevelPlayed)
    THEN levelId ELSE highestLevelPlayed

\* part_002 initialize(gameId, sessionName)
Version2Initialize(st, g, name) ==
    [isInitialized |-> TRUE,
     reportData |->
        [st.reportData EXCEPT
           !.gameId = g, !.sessionId = name, !.name = name,
           !.levels = <<>>, !.rawData = <<>>, !.perLevelAnalytics = <<>>,
           !.xpEarnedTotal = 0, !.xpEarned = 0, !.xpTotal = 0, !.bestXp = 0,
           !.lastPlayedLevel = EmptyString,
           !.highestLevelPlayed = EmptyString]]

\* part_002 addRawMetric(key, value)
Version2AddRawMetric(st, key, value) ==
    IF ~st.isInitialized THEN st
    ELSE [st EXCEPT !.reportData.rawData =
                        Append(@, [key |-> key, value |-> StringOf(value)])]

\* part_002 startLevel(levelId)
Version2StartLevel(st, levelId) ==
    IF ~st.isInitialized THEN st
    ELSE [st EXCEPT !.reportData.levels = Append(@, NewLevelEntry(levelId))]

\* part_002 endLevel(levelId, successful, timeTakenMs, xp): the mirrors of the
\* total, the markers and the aggregate are written before the lookup result
\* is tested, the total is raised after it.
Version2EndLevel(st, levelId, successful, timeTakenMs, xp) ==
    LET rd == st.reportData
        level == GetLevelById(rd.levels, levelId)
        first == [rd EXCEPT
                    !.xpEarned = rd.xpEarnedTotal,
                    !.xpTotal = rd.xpEarnedTotal,
                    !.bestXp = rd.xpEarnedTotal,
                    !.lastPlayedLevel = levelId,
                    !.highestLevelPlayed = Version2UpdateHighestLevel(@, levelId),
                    !.perLevelAnalytics =
                        UpdatePerLevelAnalytics(@, levelId, successful,
                                                timeTakenMs, xp)]
    IN  IF level # 0
        THEN [st EXCEPT !.reportData =
                [first EXCEPT
                   !.levels = [@ EXCEPT ![level] =
                                  [@ EXCEPT !.successful = successful,
                                            !.timeTaken = timeTakenMs,
                                            !.xpEarned = xp]],
                   !.xpEarnedTotal = @ + xp]]
        ELSE [st EXCEPT !.reportData = first]

\* part_002 recordTask(levelId, taskId, question, correctChoice, choiceMade,
\* timeMs, xp)
Version2RecordTask(st, levelId, taskId, question, correctChoice, choiceMade, timeMs, xp) ==
    LET level == GetLevelById(st.reportData.levels, levelId) IN
    IF level # 0
    THEN [st EXCEPT !.reportData.levels =
            [@ EXCEPT ![level] =
                [@ EXCEPT !.tasks =
                    Append(@, NewTask(taskId, question, correctChoice,
                                      choiceMade, timeMs, xp))]]]
    ELSE st

\* part_002 reset()
Version2Reset(st) ==
    [st EXCEPT !.reportData =
        [@ EXCEPT !.xpEarnedTotal = 0, !.xpEarned = 0, !.xpTotal = 0,
                  !.bestXp = 0, !.rawData = <<>>, !.levels = <<>>,
                  !.perLevelAnalytics = <<>>,
                  !.lastPlayedLevel = EmptyString,
                  !.highestLevelPlayed = EmptyString]]

\* The fields of _reportData on which the two versions are compared.
ComparedFields ==
    {"xpEarnedTotal", "xpEarned", "xpTotal", "bestXp", "lastPlayedLevel",
     "highestLevelPlayed", "perLevelAnalytics", "rawData", "levels"}

\* State st of the part_002 class holds what the part_000 class holds after
\* the step.
AgreesAfterStep(st) ==
    \A f \in ComparedFields : st.reportData[f] = Version2State'.reportData[f]

\* C31: the part_000 class and the part_002 class hold the same totals,
\* markers, aggregates, raw metrics and attempt log after every call of a
\* common sequence of calls; as both start from the same state, that is: from
\* every state they share, each call of initialize, addRawMetric, startLevel,
\* endLevel, recordTask and reset takes both to the same such fields.
C31_VersionsAgree ==
    [][/\ \A g \in GameIds, n \in SessionNames, r \in Randoms :
             Initialize(g, n, r) =>
                 AgreesAfterStep(Version2Initialize(Version2State, g, n))
       /\ \A v \in RawValues :
             AddRawMetric("moves_made", v) =>
                 AgreesAfterStep(Version2AddRawMetric(Version2State, "moves_made", v))
       /\ \A l \in LevelIds :
             StartLevel(l) => AgreesAfterStep(Version2StartLevel(Version2State, l))
       /\ \A l \in LevelIds, s \in BOOLEAN, t \in Times :
             EndLevel(l, s, t, XpFor(s)) =>
                 AgreesAfterStep(Version2EndLevel(Version2State, l, s, t, XpFor(s)))
       /\ \A l \in LevelIds, c \in Choices :
             RecordTask(l, "move_1", "Move #1: arrowup at position 15",
                        "successful", c, 1, 5) =>
                 AgreesAfterStep(Version2RecordTask(Version2State, l, "move_1",
                                     "Move #1: arrowup at position 15",
                                     "successful", c, 1, 5))
       /\ Reset => AgreesAfterStep(Version2Reset(Version2State))]_vars

\* C32: a run of the beforeunload listener calls endLevel, or makes
\* submitReport send, only when the latest entry of the current level has not
\* been closed; so it adds no close to an entry that was closed as a loss.
C32_UnloadClosesOnlyOpenAttempt ==
    [][(/\ lastCall'.op = "beforeunload"
        /\ (closes' # closes \/ lastCall'.calls # <<>>))
          => /\ Levels # <<>>
             /\ ~closed[GetLevelById(Levels, CurrentLevelId)]]_vars

\* C33: a submitReport or getReportData call, whatever the host lets the send
\* come to, leaves the recorder as it was: the attempt log, the aggregates,
\* the raw metrics, every field of _reportData (the container references
\* too), gameId, sessionName, sessionId and the initialized flag.
C33_SubmitAndSnapshotReadOnly ==
    [][lastCall'.op \in {"submitReport", "getReportData"} =>
          /\ RecorderView' = RecorderView
          /\ reportData' = reportData]_vars

\* C33 witness: with a closed level in the log and a snapshot handed out
\* earlier, a submitReport has just gone through a send that no bridge took
\* and has put its payload into the stored queue.
C33_Witness ==
    /\ lastCall.op = "submitReport" /\ lastCall.found
    /\ snap # <<>>
    /\ Levels # <<>> /\ DOMAIN PerLevelAnalytics # {}
    /\ reportData.xpEarnedTotal > 0
    /\ ~SomeAccepted(lastCall.calls)
    /\ storage.kind = "list" /\ storage.list # <<>>

====
